---- MODULE Spec2Model ----
(***************************************************************************)
(* A model of arbol (src/arbol/arbol.py): the class-level state of Arbol,  *)
(* aprint, asection, acapture and the configuration setters, driven by a   *)
(* caller that nests sections, prints, raises and catches failures.        *)
(*                                                                         *)
(* Text is a sequence of tokens (one-character strings, or one glyph or    *)
(* one fixed fragment per token).  Every print() call that reaches a real  *)
(* stream is one record of `out`; a print() that reaches a capture buffer  *)
(* is appended to that buffer.  Colour escapes (_colorise) are not part of *)
(* the recorded text: the model records the output with Arbol.colorful     *)
(* off, where _colorise returns its argument.                              *)
(***************************************************************************)
EXTENDS Integers, Sequences, FiniteSets, TLC

(* ------------------------------ bounds -------------------------------- *)
\* most operations the caller starts in one run (exits and excepts are free)
MaxOps == 4
\* largest finite max_depth the run starts with
MaxDepth == 1
\* most assignments to configuration attributes in one run
MaxSets == 1
\* most sections entered in a run that samples the elapsed times
MaxTimed == 1
\* most operations in a run that prints empty values and empty lines
MaxPrints == 3
\* most sections entered in a run with unsynchronised depth updates
MaxRace == 3

(* ------------------------ program constants --------------------------- *)
\* the glyphs of the US-ASCII / cp1252 table (arbol.py 91-96)
vl == "|"
br == "|->"
bd == "|\\"
tb == "-"
la == "<<"
Glyphs == {vl, br, bd, tb, la}

\* a value of Arbol.max_depth: math.inf (its default) or a number
Inf == [inf |-> TRUE, n |-> 0]
Fin(k) == [inf |-> FALSE, n |-> k]
\* Python's None (no file given, no exception captured)
None == "None"
\* the real standard streams (sys.__stdout__, sys.__stderr__)
Stdout == "stdout"
Stderr == "stderr"

(* ------------------------- the caller's inputs ------------------------ *)
Threads == {1, 2}
\* a stream object the caller passes as file=
Files == {None}
\* failures a section body raises
Excs == {"ValueError", "RuntimeError"}
\* the failure of reading the real stdout back in acapture's cleanup
Unsupported == "UnsupportedOperation"
\* the failure of a write to the destination
WriteError == "OSError"
Headers == {<<"A">>}
\* argument tuples of aprint: no value, and two values that join to three
\* physical lines, the middle one empty
ArgSets == {<<>>, << <<"x">>, <<"y", "\n", "\n", "z">> >>}
Seps == {<<" ">>}
Ends == {<<"\n">>}
\* argument tuples of aprint with empty values and empty physical lines:
\* aprint(), aprint(''), aprint('', ''), aprint('\n'), aprint('a\n\nb\n'),
\* aprint('\na')
PrintArgs ==
  {<<>>, << <<>> >>, << <<>>, <<>> >>, << <<"\n">> >>,
   << <<"a", "\n", "\n", "b", "\n">> >>, << <<"\n", "a">> >>}
PrintSeps == {<<>>, <<" ">>}
\* time.time() differences, in units of 1e-4 s
Elapseds == {5}
\* one second in that unit
Sec == 10000
\* time.time() differences at and next to each threshold of _print_elapsed,
\* and one of a clock that was set back
ElapsedSamples ==
  {-1, 0, 9, 10, 11, Sec - 1, Sec, Sec + 1, 60 * Sec - 1, 60 * Sec, 60 * Sec + 1,
   60 * 60 * Sec - 1, 60 * 60 * Sec, 60 * 60 * Sec + 1,
   24 * 60 * 60 * Sec - 1, 24 * 60 * 60 * Sec, 24 * 60 * 60 * Sec + 1}
\* argument tuples of a function decorated with section(), and its return values
CallArgs == {<<"2", "3">>, <<"World">>}
Results == {"5", "Hi"}
\* arguments of set_log_max_depth
MaxDepthArgs == {-1, 0, 1, 2}

(* ----------------------------- helpers -------------------------------- *)
\* a <= m for a number a and a value m of max_depth
LE(a, m) == m.inf \/ a <= m.n
\* int(min(m, a)) for a value m of max_depth and a number a
Min(m, a) == IF LE(a, m) THEN a ELSE m.n
Max(a, b) == IF a >= b THEN a ELSE b
\* s * n for a one-token string s
Rep(s, n) == [i \in 1..n |-> s]

RECURSIVE Join(_, _)
\* sep.join(str(arg) for arg in args)
Join(args, sep) ==
  IF args = <<>> THEN <<>>
  ELSE IF Len(args) = 1 THEN args[1]
  ELSE args[1] \o sep \o Join(Tail(args), sep)

RECURSIVE Split(_)
\* text.split('\n'): always at least one (possibly empty) physical line
Split(text) ==
  IF \A i \in 1..Len(text) : text[i] # "\n" THEN <<text>>
  ELSE LET k == CHOOSE i \in 1..Len(text) :
                  /\ text[i] = "\n"
                  /\ \A j \in 1..(i - 1) : text[j] # "\n"
       IN <<SubSeq(text, 1, k - 1)>> \o Split(SubSeq(text, k + 1, Len(text)))

RECURSIVE Flat(_)
\* the concatenation of a sequence of sequences
Flat(ss) == IF ss = <<>> THEN <<>> ELSE ss[1] \o Flat(Tail(ss))

(* ------------------------------ state --------------------------------- *)
VARIABLES
  depth,          \* Arbol._depth, shared by all threads
  max_depth,      \* Arbol.max_depth: Inf or Fin(k)
  elapsed_time,   \* Arbol.elapsed_time
  enable_output,  \* Arbol.enable_output
  passthrough,    \* Arbol.passthrough
  captured,       \* Arbol._thread_local.captured, per thread: "unset", "True", "False"
  sys_stdout,     \* what sys.stdout points at: the real stream or a capture buffer
  sys_stderr,     \* what sys.stderr points at
  out,            \* the print() calls that reached a real stream, in order
  stack,          \* per thread: the open asection / acapture scopes, innermost last
  pc,             \* per thread: where the thread is ("run", "exc", "exit_render", "exit_raise")
  exc,            \* per thread: the failure now propagating through caller code, or None
  raised,         \* per thread: the failure most recently raised (history)
  caught,         \* per thread: the failure the caller caught since then, or None (history)
  active,         \* the threads that run
  nsets,          \* configuration assignments made so far
  nops,           \* operations the caller has started so far
  ret             \* per thread: what the last decorated call returned to its caller (history)

vars == <<depth, max_depth, elapsed_time, enable_output, passthrough, captured,
          sys_stdout, sys_stderr, out, stack, pc, exc, raised, caught, active, nsets,
          nops, ret>>

config == <<max_depth, elapsed_time, enable_output, passthrough>>
streams == <<sys_stdout, sys_stderr, out>>
failure == <<exc, raised, caught>>

\* a standard stream that is the real one
RealStream == [buf |-> FALSE, data |-> <<>>]
\* io.TextIOWrapper(io.BytesIO(), encoding): an empty capture buffer
NewBuffer == [buf |-> TRUE, data |-> <<>>]

Top(t) == stack[t][Len(stack[t])]
\* the frame is the asection of a call of a function decorated with section()
IsCall(f) == "result" \in DOMAIN f
\* mutant: one captured flag for all threads
IsCaptured_Shared(t) == \E u \in Threads : captured[u] = "True"
IsCaptured(t) == captured[t] = "True"
\* the caller starts one more operation
Op ==
  /\ nops < MaxOps
  /\ nops' = nops + 1

(* ------------------------------ output -------------------------------- *)
\* Arbol.native_print(text, end=end, file=file): the print() calls it makes
native_print(text, end, file) ==
  IF enable_output THEN << [file |-> file, text |-> text \o end] >> ELSE <<>>

\* the built-in print(*args, sep=sep, end=end, file=file)
print(args, sep, end, file) ==
  << [file |-> file, text |-> Join(args, sep) \o end] >>

\* the writes of `ws` that reach a real stream when sys.stdout is `so`
\* (file=None is sys.stdout at the time of the call)
ToReal(ws, so) ==
  LET kept == SelectSeq(ws, LAMBDA w : w.file # None \/ ~so.buf)
  IN [i \in 1..Len(kept) |->
        [file |-> IF kept[i].file = None THEN Stdout ELSE kept[i].file,
         text |-> kept[i].text]]

\* sys.stdout after the writes `ws`
ToBuffer(ws, so) ==
  IF so.buf
  THEN LET kept == SelectSeq(ws, LAMBDA w : w.file = None)
       IN [so EXCEPT !.data = so.data \o [i \in 1..Len(kept) |-> kept[i].text]]
  ELSE so

Emit(ws) ==
  /\ out' = out \o ToReal(ws, sys_stdout)
  /\ sys_stdout' = ToBuffer(ws, sys_stdout)
  /\ sys_stderr' = sys_stderr

(* ------------------------------ aprint -------------------------------- *)
\* mutant: an empty physical line prints its bare prefix
aprint_line_BarePrefix(lines, i, level, end, file, separate_lines) ==
  native_print(Rep(vl, level)
                 \o <<IF i = 1 \/ separate_lines THEN br ELSE vl>> \o <<" ">>,
               <<>>, file)
  \o native_print(lines[i], end, file)

\* mutant: the branch glyph goes to the first non-empty physical line
aprint_line_FirstNonEmpty(lines, i, level, end, file, separate_lines) ==
  IF lines[i] # <<>>
  THEN native_print(Rep(vl, level)
                      \o <<IF (\A j \in 1..(i - 1) : lines[j] = <<>>) \/ separate_lines
                           THEN br ELSE vl>> \o <<" ">>,
                    <<>>, file)
       \o native_print(lines[i], end, file)
  ELSE <<>>

\* the two native_print calls aprint makes for physical line i
aprint_line(lines, i, level, end, file, separate_lines) ==
  IF lines[i] # <<>>
  THEN native_print(Rep(vl, level)
                      \o <<IF i = 1 \/ separate_lines THEN br ELSE vl>> \o <<" ">>,
                    <<>>, file)
       \o native_print(lines[i], end, file)
  ELSE <<>>

\* mutant: the depth is tested before the passthrough and captured flags
aprint_DepthFirst(cap, args, sep, end, file, separate_lines) ==
  IF ~LE(depth, max_depth) THEN <<>>
  ELSE IF passthrough \/ cap
  THEN print(args, sep, end, file)
  ELSE LET level == Min(max_depth, depth)
           lines == Split(Join(args, sep))
       IN Flat([i \in 1..Len(lines) |->
                  aprint_line(lines, i, level, end, file, separate_lines)])

\* mutant: no test of the depth, the level is clamped instead
aprint_NoDepthCheck(cap, args, sep, end, file, separate_lines) ==
  IF passthrough \/ cap
  THEN print(args, sep, end, file)
  ELSE LET level == Min(max_depth, depth)
           lines == Split(Join(args, sep))
       IN Flat([i \in 1..Len(lines) |->
                  aprint_line(lines, i, level, end, file, separate_lines)])

\* aprint(*args, sep, end, file, separate_lines) called where the thread's
\* captured flag is `cap`: the print() calls it makes
aprint(cap, args, sep, end, file, separate_lines) ==
  IF passthrough \/ cap
  THEN print(args, sep, end, file)
  ELSE IF LE(depth, max_depth)
  THEN LET level == Min(max_depth, depth)
           lines == Split(Join(args, sep))
       IN Flat([i \in 1..Len(lines) |->
                  aprint_line(lines, i, level, end, file, separate_lines)])
  ELSE <<>>

\* mutant: a thread's lines are indented by its own open sections only
Aprint_OwnDepth(t, args, sep, end, file, separate_lines) ==
  /\ pc[t] = "run"
  /\ Op
  /\ LET own == Cardinality({i \in 1..Len(stack[t]) : stack[t][i].kind = "section"})
         lines == Split(Join(args, sep))
     IN Emit(IF passthrough \/ IsCaptured(t)
             THEN print(args, sep, end, file)
             ELSE IF LE(own, max_depth)
             THEN Flat([i \in 1..Len(lines) |->
                          aprint_line(lines, i, Min(max_depth, own), end, file,
                                      separate_lines)])
             ELSE <<>>)
  /\ UNCHANGED <<depth, config, captured, stack, pc, failure, active, nsets, ret>>

Aprint(t, args, sep, end, file, separate_lines) ==
  /\ pc[t] = "run"
  /\ Op
  /\ Emit(aprint(IsCaptured(t), args, sep, end, file, separate_lines))
  /\ UNCHANGED <<depth, config, captured, stack, pc, failure, active, nsets, ret>>

(* --------------------------- configuration ---------------------------- *)
\* mutant: the stored value is n - 1, not clamped
set_log_max_depth_NoClamp(t, n) ==
  /\ pc[t] = "run"
  /\ nsets < MaxSets
  /\ Op
  /\ max_depth' = Fin(n - 1)
  /\ nsets' = nsets + 1
  /\ stack' = [u \in Threads |->
                 [i \in 1..Len(stack[u]) |->
                    [stack[u][i] EXCEPT !.fixed = @ /\ (max_depth' = max_depth)]]]
  /\ UNCHANGED <<depth, elapsed_time, enable_output, passthrough, captured,
                 streams, pc, failure, active, ret>>

\* mutant: the stored value is the number of levels itself
set_log_max_depth_ZeroIndexed(t, n) ==
  /\ pc[t] = "run"
  /\ nsets < MaxSets
  /\ Op
  /\ max_depth' = Fin(Max(0, n))
  /\ nsets' = nsets + 1
  /\ stack' = [u \in Threads |->
                 [i \in 1..Len(stack[u]) |->
                    [stack[u][i] EXCEPT !.fixed = @ /\ (max_depth' = max_depth)]]]
  /\ UNCHANGED <<depth, elapsed_time, enable_output, passthrough, captured,
                 streams, pc, failure, active, ret>>

\* Arbol.set_log_max_depth(n), called by thread t between its operations
set_log_max_depth(t, n) ==
  /\ pc[t] = "run"
  /\ nsets < MaxSets
  /\ Op
  /\ max_depth' = Fin(Max(0, n - 1))
  /\ nsets' = nsets + 1
  /\ stack' = [u \in Threads |->
                 [i \in 1..Len(stack[u]) |->
                    [stack[u][i] EXCEPT !.fixed = @ /\ (max_depth' = max_depth)]]]
  /\ UNCHANGED <<depth, elapsed_time, enable_output, passthrough, captured,
                 streams, pc, failure, active, ret>>

\* Arbol.set_log_elapsed_time(b)
set_log_elapsed_time(t, b) ==
  /\ pc[t] = "run"
  /\ nsets < MaxSets
  /\ Op
  /\ elapsed_time' = b
  /\ nsets' = nsets + 1
  /\ UNCHANGED <<depth, max_depth, enable_output, passthrough, captured,
                 streams, stack, pc, failure, active, ret>>

\* Arbol.enable_output = b
SetEnableOutput(t, b) ==
  /\ pc[t] = "run"
  /\ nsets < MaxSets
  /\ Op
  /\ enable_output' = b
  /\ nsets' = nsets + 1
  /\ UNCHANGED <<depth, max_depth, elapsed_time, passthrough, captured,
                 streams, stack, pc, failure, active, ret>>

\* Arbol.passthrough = b
SetPassthrough(t, b) ==
  /\ pc[t] = "run"
  /\ nsets < MaxSets
  /\ Op
  /\ passthrough' = b
  /\ nsets' = nsets + 1
  /\ UNCHANGED <<depth, max_depth, elapsed_time, enable_output, captured,
                 streams, stack, pc, failure, active, ret>>

(* ----------------------------- asection ------------------------------ *)
\* mutant: each threshold belongs to the smaller unit
ElapsedText_Inclusive(elapsed) ==
  IF elapsed <= 10 THEN <<" ", ToString(elapsed * 100), " microseconds">>
  ELSE IF elapsed <= 10000 THEN <<" ", ToString(elapsed), "/10", " milliseconds">>
  ELSE IF elapsed <= 60 * 10000 THEN <<" ", ToString(elapsed), "/10000", " seconds">>
  ELSE IF elapsed <= 60 * 60 * 10000
       THEN <<" ", ToString(elapsed), "/600000", " minutes">>
  ELSE IF elapsed <= 24 * 60 * 60 * 10000
       THEN <<" ", ToString(elapsed), "/36000000", " hours">>
  ELSE <<" ", ToString(elapsed), "/864000000", " days">>

\* _print_elapsed(elapsed, file), elapsed in units of 1e-4 s: the unit, and the
\* magnitude before its two-decimal formatting, written as a quotient
ElapsedText(elapsed) ==
  IF elapsed < 10 THEN <<" ", ToString(elapsed * 100), " microseconds">>
  ELSE IF elapsed < 10000 THEN <<" ", ToString(elapsed), "/10", " milliseconds">>
  ELSE IF elapsed < 60 * 10000 THEN <<" ", ToString(elapsed), "/10000", " seconds">>
  ELSE IF elapsed < 60 * 60 * 10000
       THEN <<" ", ToString(elapsed), "/600000", " minutes">>
  ELSE IF elapsed < 24 * 60 * 60 * 10000
       THEN <<" ", ToString(elapsed), "/36000000", " hours">>
  ELSE <<" ", ToString(elapsed), "/864000000", " days">>

\* mutant: the footer carries as many vertical glyphs as the depth
print_elapsed_AtDepth(elapsed, file) ==
  native_print(Rep(vl, depth) \o <<tb, la>> \o ElapsedText(elapsed), <<"\n">>, file)

print_elapsed(elapsed, file) ==
  native_print(Rep(vl, depth + 1) \o <<tb, la>> \o ElapsedText(elapsed), <<"\n">>, file)

\* mutant: the truncation marker at every level past the bound
asection_entry_MarkerBelow(header, file) ==
  IF LE(depth + 1, max_depth)
  THEN native_print(Rep(vl, depth) \o <<bd>> \o <<" ">> \o header, <<"\n">>, file)
  ELSE native_print(Rep(vl, depth) \o <<br, "=">> \o <<" ">> \o header
                      \o <<" (log tree truncated here)">>,
                    <<"\n">>, file)

\* lines 215-228: what asection prints before it increments the depth
asection_entry(header, file) ==
  IF LE(depth + 1, max_depth)
  THEN native_print(Rep(vl, depth) \o <<bd>> \o <<" ">> \o header, <<"\n">>, file)
  ELSE IF ~max_depth.inf /\ depth + 1 = max_depth.n + 1
  THEN native_print(Rep(vl, depth) \o <<br, "=">> \o <<" ">> \o header
                      \o <<" (log tree truncated here)">>,
                    <<"\n">>, file)
  ELSE <<>>

\* mutant: the footer comes after the closing line
asection_exit_FooterLast(elapsed, file) ==
  IF LE(depth, max_depth)
  THEN native_print(Rep(vl, depth + 1), <<"\n">>, file)
       \o (IF elapsed_time THEN print_elapsed(elapsed, file) ELSE <<>>)
  ELSE <<>>

\* mutant: the exit prints at every depth
asection_exit_Always(elapsed, file) ==
  (IF elapsed_time THEN print_elapsed(elapsed, file) ELSE <<>>)
  \o native_print(Rep(vl, depth + 1), <<"\n">>, file)

\* mutant: the exit tests depth + 1 <= max_depth, as the entry does
asection_exit_Symmetric(elapsed, file) ==
  IF LE(depth + 1, max_depth)
  THEN (IF elapsed_time THEN print_elapsed(elapsed, file) ELSE <<>>)
       \o native_print(Rep(vl, depth + 1), <<"\n">>, file)
  ELSE <<>>

\* lines 242-247: what asection prints after it has decremented the depth
asection_exit(elapsed, file) ==
  IF LE(depth, max_depth)
  THEN (IF elapsed_time THEN print_elapsed(elapsed, file) ELSE <<>>)
       \o native_print(Rep(vl, depth + 1), <<"\n">>, file)
  ELSE <<>>

\* the frame of an open asection; d0, md0, eo0, et0, fixed, entry and exit are
\* history: the depth, max_depth, enable_output and elapsed_time at entry,
\* whether max_depth has kept that value since, and what the section printed
\* at entry and at exit
SectionFrame(header, file, ws) ==
  [kind |-> "section", header |-> header, file |-> file, exception |-> None,
   d0 |-> depth, md0 |-> max_depth, eo0 |-> enable_output, fixed |-> TRUE,
   et0 |-> elapsed_time, entry |-> ws, exit |-> <<>>]

\* mutant: a section that prints nothing at entry does not count
SectionEnter_SkipHidden(t, header, file) ==
  /\ pc[t] = "run"
  /\ Op
  /\ LET ws == asection_entry(header, file)
     IN /\ Emit(ws)
        /\ stack' = [stack EXCEPT ![t] = Append(@, SectionFrame(header, file, ws))]
        /\ depth' = IF ws = <<>> /\ enable_output THEN depth ELSE depth + 1
  /\ UNCHANGED <<config, captured, pc, failure, active, nsets, ret>>

\* mutant: a section entered while output is disabled does not count
SectionEnter_EnabledOnly(t, header, file) ==
  /\ pc[t] = "run"
  /\ Op
  /\ LET ws == asection_entry(header, file)
     IN /\ Emit(ws)
        /\ stack' = [stack EXCEPT ![t] = Append(@, SectionFrame(header, file, ws))]
  /\ depth' = IF enable_output THEN depth + 1 ELSE depth
  /\ UNCHANGED <<config, captured, pc, failure, active, nsets, ret>>

\* lines 215-235: asection up to its yield
SectionEnter(t, header, file) ==
  /\ pc[t] = "run"
  /\ Op
  /\ LET ws == asection_entry(header, file)
     IN /\ Emit(ws)
        /\ stack' = [stack EXCEPT ![t] = Append(@, SectionFrame(header, file, ws))]
  /\ depth' = depth + 1
  /\ UNCHANGED <<config, captured, pc, failure, active, nsets, ret>>

\* mutant: the depth is decremented only when the body returns
SectionExitBegin_NoRestore(t) ==
  /\ pc[t] \in {"run", "exc"}
  /\ stack[t] # <<>>
  /\ Top(t).kind = "section"
  /\ stack' = [stack EXCEPT ![t][Len(stack[t])].exception = exc[t]]
  /\ exc' = [exc EXCEPT ![t] = None]
  /\ depth' = IF exc[t] = None THEN depth - 1 ELSE depth
  /\ pc' = [pc EXCEPT ![t] = "exit_render"]
  /\ UNCHANGED <<nops, config, captured, streams, raised, caught, active, nsets, ret>>

\* mutant: try/finally around the yield: a failure decrements the depth and
\* propagates at once, past the footer and the closing line
SectionExitBegin_Finally(t) ==
  /\ pc[t] \in {"run", "exc"}
  /\ stack[t] # <<>>
  /\ Top(t).kind = "section"
  /\ depth' = depth - 1
  /\ IF exc[t] = None
     THEN /\ stack' = [stack EXCEPT ![t][Len(stack[t])].exception = exc[t]]
          /\ pc' = [pc EXCEPT ![t] = "exit_render"]
     ELSE /\ stack' = [stack EXCEPT ![t] = SubSeq(@, 1, Len(@) - 1)]
          /\ pc' = pc
  /\ UNCHANGED <<nops, config, captured, streams, failure, active, nsets, ret>>

\* lines 236-241: the body has returned or raised; the failure, if any, is
\* kept in the local `exception`, and the depth is decremented
SectionExitBegin(t) ==
  /\ pc[t] \in {"run", "exc"}
  /\ stack[t] # <<>>
  /\ Top(t).kind = "section"
  /\ stack' = [stack EXCEPT ![t][Len(stack[t])].exception = exc[t]]
  /\ exc' = [exc EXCEPT ![t] = None]
  /\ depth' = depth - 1
  /\ pc' = [pc EXCEPT ![t] = "exit_render"]
  /\ UNCHANGED <<nops, config, captured, streams, raised, caught, active, nsets, ret>>

\* mutant: a section whose body raised prints nothing at exit
SectionExitRender_SkipOnFailure(t, elapsed) ==
  /\ pc[t] = "exit_render"
  /\ LET ws == IF Top(t).exception = None
               THEN asection_exit(elapsed, Top(t).file)
               ELSE <<>>
     IN /\ Emit(ws)
        /\ stack' = [stack EXCEPT ![t][Len(stack[t])].exit = ws]
  /\ pc' = [pc EXCEPT ![t] = "exit_raise"]
  /\ UNCHANGED <<nops, depth, config, captured, failure, active, nsets, ret>>

\* mutant: the exit renders by the configuration the section was entered with
SectionExitRender_EntryValues(t, elapsed) ==
  /\ pc[t] = "exit_render"
  /\ LET f == Top(t)
         line(text) == IF f.eo0 THEN <<[file |-> f.file, text |-> text \o <<"\n">>]>>
                       ELSE <<>>
         ws == IF LE(depth, f.md0)
               THEN (IF f.et0
                     THEN line(Rep(vl, depth + 1) \o <<tb, la>> \o ElapsedText(elapsed))
                     ELSE <<>>)
                    \o line(Rep(vl, depth + 1))
               ELSE <<>>
     IN /\ Emit(ws)
        /\ stack' = [stack EXCEPT ![t][Len(stack[t])].exit = ws]
  /\ pc' = [pc EXCEPT ![t] = "exit_raise"]
  /\ UNCHANGED <<nops, depth, config, captured, failure, active, nsets, ret>>

\* lines 242-247: the elapsed-time footer and the closing line
SectionExitRender(t, elapsed) ==
  /\ pc[t] = "exit_render"
  /\ LET ws == asection_exit(elapsed, Top(t).file)
     IN /\ Emit(ws)
        /\ stack' = [stack EXCEPT ![t][Len(stack[t])].exit = ws]
  /\ pc' = [pc EXCEPT ![t] = "exit_raise"]
  /\ UNCHANGED <<nops, depth, config, captured, failure, active, nsets, ret>>

\* mutant: the section returns normally whatever its body did
SectionExitEnd_Swallow(t) ==
  /\ pc[t] = "exit_raise"
  /\ exc' = [exc EXCEPT ![t] = None]
  /\ pc' = [pc EXCEPT ![t] = "run"]
  /\ stack' = [stack EXCEPT ![t] = SubSeq(@, 1, Len(@) - 1)]
  /\ UNCHANGED <<nops, depth, config, captured, streams, raised, caught, active, nsets, ret>>

\* lines 249-250: re-raise the failure kept in `exception`, or return
SectionExitEnd(t) ==
  /\ pc[t] = "exit_raise"
  /\ exc' = [exc EXCEPT ![t] = Top(t).exception]
  /\ pc' = [pc EXCEPT ![t] = IF Top(t).exception # None THEN "exc" ELSE "run"]
  /\ stack' = [stack EXCEPT ![t] = SubSeq(@, 1, Len(@) - 1)]
  /\ ret' = [ret EXCEPT ![t] = IF IsCall(Top(t)) /\ Top(t).exception = None
                                 THEN Top(t).result ELSE @]
  /\ UNCHANGED <<nops, depth, config, captured, streams, raised, caught, active, nsets>>

(* ------------------------- the section decorator --------------------- *)
\* lines 277-281: _wrap(*args, **kwargs) enters asection with the decorator's
\* header and file, and calls func with the arguments it was given
Call(t, header, file, args) ==
  /\ pc[t] = "run"
  /\ Op
  /\ LET ws == asection_entry(header, file)
     IN /\ Emit(ws)
        /\ stack' = [stack EXCEPT ![t] =
                       Append(@, SectionFrame(header, file, ws)
                                   @@ [func_args |-> args, result |-> None])]
  /\ depth' = depth + 1
  /\ UNCHANGED <<config, captured, pc, failure, active, nsets, ret>>

\* mutant: _wrap calls func and drops what it returns
Return_DropResult(t, v) ==
  /\ pc[t] = "run"
  /\ Op
  /\ stack[t] # <<>>
  /\ IsCall(Top(t))
  /\ depth' = depth - 1
  /\ pc' = [pc EXCEPT ![t] = "exit_render"]
  /\ UNCHANGED <<config, captured, streams, stack, failure, active, nsets, ret>>

\* line 281: func returns v; the return statement holds v while the
\* with-block exits (asection resumes after its yield and decrements the depth)
Return(t, v) ==
  /\ pc[t] = "run"
  /\ Op
  /\ stack[t] # <<>>
  /\ IsCall(Top(t))
  /\ stack' = [stack EXCEPT ![t][Len(stack[t])].result = v]
  /\ depth' = depth - 1
  /\ pc' = [pc EXCEPT ![t] = "exit_render"]
  /\ UNCHANGED <<config, captured, streams, failure, active, nsets, ret>>

(* -------------------------- the legacy aliases ------------------------ *)
\* mutant: lprint asks aprint for separate lines
lprint_SeparateLines(cap, args, sep, end, file) ==
  aprint(cap, args, sep, end, file, TRUE)

\* lines 380-382: lprint hands its arguments to aprint; separate_lines is
\* not passed and keeps aprint's default, False
lprint(cap, args, sep, end, file) ==
  aprint(cap, args, sep, end, file, FALSE)

Lprint(t, args, sep, end, file) ==
  /\ pc[t] = "run"
  /\ Op
  /\ Emit(lprint(IsCaptured(t), args, sep, end, file))
  /\ UNCHANGED <<depth, config, captured, stack, pc, failure, active, nsets, ret>>

\* lines 385-389: lsection enters asection with its header and file and
\* yields inside that with-block; its exit is the exit of that asection
LsectionEnter(t, header, file) ==
  /\ pc[t] = "run"
  /\ Op
  /\ LET ws == asection_entry(header, file)
     IN /\ Emit(ws)
        /\ stack' = [stack EXCEPT ![t] = Append(@, SectionFrame(header, file, ws))]
  /\ depth' = depth + 1
  /\ UNCHANGED <<config, captured, pc, failure, active, nsets, ret>>

(* ----------------------------- acapture ------------------------------- *)
CaptureFrame ==
  [kind |-> "capture", header |-> <<>>, file |-> None, exception |-> None,
   d0 |-> depth, md0 |-> max_depth, eo0 |-> enable_output, fixed |-> TRUE,
   entry |-> <<>>, exit |-> <<>>]

\* lines 308-317: acapture up to its yield
CaptureEnter(t) ==
  /\ pc[t] = "run"
  /\ Op
  /\ sys_stdout' = NewBuffer
  /\ sys_stderr' = NewBuffer
  /\ captured' = [captured EXCEPT ![t] = "True"]
  /\ stack' = [stack EXCEPT ![t] = Append(@, CaptureFrame)]
  /\ UNCHANGED <<depth, config, out, pc, failure, active, nsets, ret>>

\* lines 318-336: the flag is reset, the buffers are read back, the real
\* streams are restored and the two texts go through aprint with
\* separate_lines; sys.stdout already being the real stream (an inner
\* acapture restored it) cannot be read back, and the read raises
CaptureExit(t) ==
  /\ pc[t] \in {"run", "exc"}
  /\ stack[t] # <<>>
  /\ Top(t).kind = "capture"
  /\ captured' = [captured EXCEPT ![t] = "False"]
  /\ stack' = [stack EXCEPT ![t] = SubSeq(@, 1, Len(@) - 1)]
  /\ IF sys_stdout.buf
     THEN /\ sys_stdout' = RealStream
          /\ sys_stderr' = RealStream
          /\ out' = out
               \o ToReal(aprint(FALSE, <<Flat(sys_stdout.data)>>, <<" ">>, <<"\n">>,
                                None, TRUE), RealStream)
               \o ToReal(aprint(FALSE, <<Flat(sys_stderr.data)>>, <<" ">>, <<"\n">>,
                                Stderr, TRUE), RealStream)
          /\ UNCHANGED <<pc, failure>>
     ELSE /\ pc' = [pc EXCEPT ![t] = "exc"]
          /\ exc' = [exc EXCEPT ![t] = Unsupported]
          /\ raised' = [raised EXCEPT ![t] = Unsupported]
          /\ caught' = [caught EXCEPT ![t] = None]
          /\ UNCHANGED streams
  /\ UNCHANGED <<nops, depth, config, active, nsets, ret>>

(* ----------------------------- the caller ----------------------------- *)
\* the body of the innermost open scope raises e
Raise(t, e) ==
  /\ pc[t] = "run"
  /\ Op
  /\ stack[t] # <<>>
  /\ pc' = [pc EXCEPT ![t] = "exc"]
  /\ exc' = [exc EXCEPT ![t] = e]
  /\ raised' = [raised EXCEPT ![t] = e]
  /\ caught' = [caught EXCEPT ![t] = None]
  /\ UNCHANGED <<depth, config, captured, streams, stack, active, nsets, ret>>

\* the caller's except clause around the innermost scope that has exited
Catch(t) ==
  /\ pc[t] = "exc"
  /\ pc' = [pc EXCEPT ![t] = "run"]
  /\ caught' = [caught EXCEPT ![t] = exc[t]]
  /\ exc' = [exc EXCEPT ![t] = None]
  /\ UNCHANGED <<nops, depth, config, captured, streams, stack, raised, active, nsets, ret>>

(* -------------------------- specification ----------------------------- *)
\* no section is open and nothing is captured or printed (arbol.py 68, 98);
\* the configuration attributes hold what the program assigned to them
\* before its first operation (their defaults, arbol.py 70-74, included);
\* one thread runs
Init ==
  /\ depth = 0
  /\ max_depth \in {Inf} \cup {Fin(k) : k \in 0..MaxDepth}
  /\ elapsed_time \in BOOLEAN
  /\ enable_output \in BOOLEAN
  /\ passthrough \in BOOLEAN
  /\ captured = [t \in Threads |-> "unset"]
  /\ sys_stdout = RealStream
  /\ sys_stderr = RealStream
  /\ out = <<>>
  /\ stack = [t \in Threads |-> <<>>]
  /\ pc = [t \in Threads |-> "run"]
  /\ exc = [t \in Threads |-> None]
  /\ raised = [t \in Threads |-> None]
  /\ caught = [t \in Threads |-> None]
  /\ active = {1}
  /\ nsets = 0
  /\ nops = 0
  /\ ret = [t \in Threads |-> None]

Next ==
  \/ \E t \in active, args \in ArgSets, sep \in Seps, end \in Ends, file \in Files,
        separate_lines \in BOOLEAN :
       Aprint(t, args, sep, end, file, separate_lines)
  \/ \E t \in active, header \in Headers, file \in Files : SectionEnter(t, header, file)
  \/ \E t \in active : SectionExitBegin(t)
  \/ \E t \in active, elapsed \in Elapseds : SectionExitRender(t, elapsed)
  \/ \E t \in active : SectionExitEnd(t)
  \/ \E t \in active : CaptureEnter(t)
  \/ \E t \in active : CaptureExit(t)
  \/ \E t \in active, e \in Excs : Raise(t, e)
  \/ \E t \in active : Catch(t)
  \/ \E t \in active, n \in MaxDepthArgs : set_log_max_depth(t, n)
  \/ \E t \in active, b \in BOOLEAN : set_log_elapsed_time(t, b)
  \/ \E t \in active, b \in BOOLEAN : SetEnableOutput(t, b)
  \/ \E t \in active, b \in BOOLEAN : SetPassthrough(t, b)

Spec == Init /\ [][Next]_vars

(* ------------------- the lines a section is to print ------------------ *)
HeaderLine(d, header) == Rep(vl, d) \o <<bd, " ">> \o header \o <<"\n">>
MarkerLine(d, header) ==
  Rep(vl, d) \o <<br, "=", " ">> \o header \o <<" (log tree truncated here)", "\n">>
CloserLine(d) == Rep(vl, d + 1) \o <<"\n">>
IsFooterLine(text, d) ==
  \E e \in Elapseds : text = Rep(vl, d + 1) \o <<tb, la>> \o ElapsedText(e) \o <<"\n">>
HasGlyph(text) == \E i \in 1..Len(text) : text[i] \in Glyphs
\* some write of `out` has this text
Printed(text) == \E i \in 1..Len(out) : out[i].text = text

ExitPcs == {"exit_render", "exit_raise"}
IsSection(t, i) == stack[t][i].kind = "section"
\* frame i of thread t is the outermost asection of its thread
Outermost(t, i) == IsSection(t, i) /\ \A j \in 1..(i - 1) : ~IsSection(t, j)
\* the asection scopes of thread t that are entered and not yet exited
NumOpen(t) ==
  Cardinality({i \in 1..Len(stack[t]) : IsSection(t, i)})
    - (IF pc[t] \in ExitPcs THEN 1 ELSE 0)

(* ------------------------------ claims -------------------------------- *)
\* C1: when the outermost asection of a call chain returns or raises,
\* whatever its body and the sections nested in it did, the depth counter
\* has the value it had before that asection was entered.
C1_DepthRestored ==
  [][\A t \in active :
       (SectionExitEnd(t) /\ Outermost(t, Len(stack[t])))
         => depth' = Top(t).d0]_vars

\* a failure has left the outermost of two nested sections, both closed
W_C1 ==
  /\ pc[1] = "exc"
  /\ exc[1] \in Excs
  /\ stack[1] = <<>>
  /\ depth = 0
  /\ Printed(CloserLine(1))
  /\ Printed(CloserLine(0))

\* C2: in one sequential call chain the depth counter equals, at every
\* point, the number of asection scopes entered and not yet exited (so it is
\* 0 when none is open).
C2_DepthCountsOpenSections == \A t \in active : depth = NumOpen(t)

\* two sections were entered and the inner one has exited
W_C2 ==
  /\ pc[1] = "run"
  /\ Len(stack[1]) = 1
  /\ IsSection(1, 1)
  /\ depth = 1
  /\ Printed(CloserLine(1))

\* C3: a failure raised in a section body reaches the caller as the same
\* failure: while it propagates it is the failure that was raised, a section
\* that is exiting holds that very failure, and the caller runs on only after
\* having caught it.
C3_FailureReachesCaller ==
  \A t \in active :
    /\ pc[t] = "exc" => exc[t] = raised[t]
    /\ (pc[t] \in ExitPcs /\ raised[t] # None /\ caught[t] = None)
         => Top(t).exception = raised[t]
    /\ (pc[t] = "run" /\ raised[t] # None) => caught[t] = raised[t]

\* the caller of the outermost of two nested sections has caught the failure
W_C3 ==
  /\ pc[1] = "run"
  /\ stack[1] = <<>>
  /\ caught[1] = "RuntimeError"
  /\ Printed(CloserLine(1))
  /\ Printed(CloserLine(0))

\* C4: a failure leaves a section only through the end of its exit logic:
\* the footer and the closing line are printed with the depth already
\* decremented and the failure still held back, and when the failure is
\* re-raised the depth is the one before entry and the lines of a section
\* within the visible bound are already printed.
C4_ExitBeforeReraise ==
  [][\A t \in active :
       /\ (pc[t] = "exit_render" /\ pc'[t] = "exit_raise")
            => /\ depth = Top(t).d0
               /\ exc[t] = None
               /\ exc'[t] = None
       /\ (/\ pc'[t] = "exc"
           /\ stack[t] # <<>>
           /\ IsSection(t, Len(stack[t]))
           /\ Len(stack'[t]) < Len(stack[t]))
            => /\ pc[t] = "exit_raise"
               /\ exc'[t] = Top(t).exception
               /\ depth = Top(t).d0
               /\ depth' = depth
               /\ out' = out
               /\ (LE(Top(t).d0 + 1, max_depth) /\ enable_output)
                    => /\ Top(t).exit # <<>>
                       /\ Top(t).exit[Len(Top(t).exit)].text = CloserLine(Top(t).d0)
                       /\ elapsed_time
                            => /\ Len(Top(t).exit) = 2
                               /\ IsFooterLine(Top(t).exit[1].text, Top(t).d0)]_vars

\* the outer of two nested sections holds the failure, has printed its
\* footer and closing line after those of the inner one, and is about to
\* re-raise
W_C4 ==
  /\ pc[1] = "exit_raise"
  /\ Len(stack[1]) = 1
  /\ Top(1).exception \in Excs
  /\ Len(Top(1).exit) = 2
  /\ Len(out) >= 4
  /\ out[Len(out)].text = CloserLine(0)
  /\ out[Len(out) - 2].text = CloserLine(1)

\* C5: with max_depth = k unchanged while a section is open and output
\* enabled, the section entered at depth d (its level is d + 1) prints its
\* header when d + 1 <= k, exactly one truncation-marker line when d = k and
\* nothing at entry when d > k; at exit it prints (the footer, when
\* elapsed_time is on, and the closing line) exactly when d <= k, that is
\* for the first k + 1 levels, the truncated one included.
C5_TruncationBoundary ==
  \A t \in active : \A i \in 1..Len(stack[t]) :
    LET f == stack[t][i]
        k == f.md0.n
    IN (IsSection(t, i) /\ ~f.md0.inf)
         => /\ f.eo0
                 => /\ f.d0 + 1 <= k
                         => f.entry = <<[file |-> f.file, text |-> HeaderLine(f.d0, f.header)]>>
                    /\ f.d0 = k
                         => f.entry = <<[file |-> f.file, text |-> MarkerLine(f.d0, f.header)]>>
                    /\ f.d0 > k => f.entry = <<>>
            /\ (i = Len(stack[t]) /\ pc[t] = "exit_raise" /\ f.fixed /\ enable_output)
                 => /\ f.exit # <<>> <=> f.d0 <= k
                    /\ elapsed_time
                         => ((\E j \in 1..Len(f.exit) : IsFooterLine(f.exit[j].text, f.d0))
                               <=> f.d0 <= k)

\* max_depth is 1 and three sections are nested: the first printed its
\* header, the second the marker, the third nothing, and the third has
\* exited without a line
W_C5 ==
  /\ pc[1] = "exit_raise"
  /\ Len(stack[1]) = 3
  /\ \A i \in 1..3 : IsSection(1, i) /\ stack[1][i].fixed /\ stack[1][i].eo0
  /\ max_depth = Fin(1)
  /\ enable_output
  /\ stack[1][1].entry # <<>>
  /\ stack[1][2].entry # <<>>
  /\ stack[1][3].entry = <<>>
  /\ stack[1][3].exit = <<>>

\* C6: in normal mode (passthrough off, thread not captured), while a
\* section entered at depth = max_depth is open and max_depth has not
\* changed, an aprint in its body or below, the entry of a descendant
\* section and the exit of a descendant section write nothing, neither to a
\* real stream nor to a buffer.
Truncated(t, n) ==
  \E i \in 1..n :
    /\ IsSection(t, i)
    /\ stack[t][i].fixed
    /\ ~stack[t][i].md0.inf
    /\ stack[t][i].d0 = stack[t][i].md0.n

C6_TruncatedSubtreeSilent ==
  [][\A t \in active :
       (~passthrough /\ ~IsCaptured(t))
         => /\ \A args \in ArgSets, sep \in Seps, end \in Ends, file \in Files,
                  sl \in BOOLEAN :
                 (Aprint(t, args, sep, end, file, sl) /\ Truncated(t, Len(stack[t])))
                   => UNCHANGED streams
            /\ \A header \in Headers, file \in Files :
                 (SectionEnter(t, header, file) /\ Truncated(t, Len(stack[t])))
                   => UNCHANGED streams
            /\ \A elapsed \in Elapseds :
                 (SectionExitRender(t, elapsed) /\ Truncated(t, Len(stack[t]) - 1))
                   => UNCHANGED streams]_vars

\* max_depth is 0: the truncated section and a descendant are open, two
\* more operations (aprint, or a descendant's entry and exit) have run, and
\* the marker is all that was printed
W_C6 ==
  /\ max_depth = Fin(0)
  /\ enable_output
  /\ ~passthrough
  /\ captured[1] = "unset"
  /\ nsets = 0
  /\ raised[1] = None
  /\ pc[1] = "run"
  /\ Len(stack[1]) = 2
  /\ nops = 4
  /\ out = <<[file |-> Stdout, text |-> MarkerLine(0, <<"A">>)]>>

\* C7: a section entered at depth = max_depth (it showed the truncation
\* marker) prints at exit, with output enabled, its closing line of
\* depth + 1 vertical glyphs, preceded by its elapsed-time footer when
\* elapsed_time is on.
C7_TruncatedSectionFooter ==
  \A t \in active :
    (/\ pc[t] = "exit_raise"
     /\ Top(t).fixed
     /\ ~Top(t).md0.inf
     /\ Top(t).d0 = Top(t).md0.n
     /\ enable_output)
      => LET f == Top(t)
         IN /\ f.exit # <<>>
            /\ f.exit[Len(f.exit)] = [file |-> f.file, text |-> CloserLine(f.d0)]
            /\ IF elapsed_time
               THEN Len(f.exit) = 2 /\ IsFooterLine(f.exit[1].text, f.d0)
               ELSE Len(f.exit) = 1

\* max_depth is 1: the second of two nested sections showed the marker and
\* has printed its footer and closing line
W_C7 ==
  /\ pc[1] = "exit_raise"
  /\ Len(stack[1]) = 2
  /\ max_depth = Fin(1)
  /\ Top(1).fixed
  /\ Top(1).d0 = 1
  /\ Top(1).entry = <<[file |-> None, text |-> MarkerLine(1, <<"A">>)]>>
  /\ Len(Top(1).exit) = 2
  /\ out[Len(out)].text = CloserLine(1)

\* C8: while enable_output is false no step writes to a real stream.
C8_NoOutputWhenDisabled ==
  [][(~enable_output /\ ~enable_output') => out' = out]_vars

\* C9: when passthrough is true or the thread's captured flag is set, aprint
\* makes exactly one write, of the separator-joined arguments followed by
\* the terminator, with no glyph in it, to the stream file= names
\* (sys.stdout when none is given), at any depth.
C9_RawWhenPassthroughOrCaptured ==
  [][\A t \in active :
       \* an aprint starts an operation and leaves the stack as it is
       (nops' # nops /\ stack' = stack /\ (passthrough \/ IsCaptured(t)))
         => \A args \in ArgSets, sep \in Seps, end \in Ends, file \in Files,
               sl \in BOOLEAN :
              Aprint(t, args, sep, end, file, sl)
                => /\ ~HasGlyph(Join(args, sep) \o end)
                   /\ IF file = None /\ sys_stdout.buf
                      THEN /\ out' = out
                           /\ sys_stdout'.data
                                = Append(sys_stdout.data, Join(args, sep) \o end)
                      ELSE /\ out' = Append(out, [file |-> IF file = None THEN Stdout
                                                           ELSE file,
                                                  text |-> Join(args, sep) \o end])
                           /\ sys_stdout' = sys_stdout]_vars

\* passthrough is on and max_depth is 0: after the truncation marker of the
\* open section, at depth 1, an aprint has written its raw text
W_C9 ==
  /\ passthrough
  /\ max_depth = Fin(0)
  /\ depth = 1
  /\ pc[1] = "run"
  /\ out = <<[file |-> Stdout, text |-> MarkerLine(0, <<"A">>)],
             [file |-> Stdout, text |-> <<"x", " ", "y", "\n", "\n", "z", "\n">>]>>

\* C10: while passthrough is true no step writes text with a tree glyph.
C10_PassthroughNoGlyphs ==
  [][(passthrough /\ passthrough')
       => \A i \in (Len(out) + 1)..Len(out') : ~HasGlyph(out'[i].text)]_vars

(* ------------------- aprint on empty text and lines ------------------- *)
\* sections open and aprint is called with empty values and empty lines
NextAprint ==
  \/ \E t \in active, header \in Headers, file \in Files :
       nops < MaxPrints /\ SectionEnter(t, header, file)
  \/ \E t \in active, args \in PrintArgs, sep \in PrintSeps, end \in Ends,
        file \in Files, separate_lines \in BOOLEAN :
       nops < MaxPrints /\ Aprint(t, args, sep, end, file, separate_lines)

SpecAprint == Init /\ [][NextAprint]_vars

\* the output lines the writes `ws` make up (each ends with a newline)
OutLines(ws) ==
  LET ls == Split(Flat([i \in 1..Len(ws) |-> ws[i].text]))
  IN SubSeq(ls, 1, Len(ls) - 1)
NonEmpty(lines) == Cardinality({i \in 1..Len(lines) : lines[i] # <<>>})

\* C11: in normal mode (passthrough off, thread not captured) an aprint
\* whose joined text has no non-empty physical line (no argument, or an
\* empty joined text, or newlines only) writes nothing, at any depth; in
\* general it adds at most one output line per non-empty physical line,
\* exactly one when the depth is visible and output is enabled, and every
\* added line is longer than its prefix of depth + 2 tokens.
C11_EmptyLinesSilent ==
  [][\A t \in active, args \in PrintArgs, sep \in PrintSeps, end \in Ends,
        file \in Files, sl \in BOOLEAN :
       (Aprint(t, args, sep, end, file, sl) /\ ~passthrough /\ ~IsCaptured(t))
         => LET lines == Split(Join(args, sep))
                added == OutLines(SubSeq(out', Len(out) + 1, Len(out')))
            IN /\ NonEmpty(lines) = 0 => UNCHANGED streams
               /\ Len(added) = IF enable_output /\ LE(depth, max_depth)
                                THEN NonEmpty(lines) ELSE 0
               /\ \A i \in 1..Len(added) : Len(added[i]) > Min(max_depth, depth) + 2]_vars

\* at depth 1 aprint('') wrote nothing and aprint('a\n\nb\n') wrote two lines
W_C11 ==
  /\ nops = 3
  /\ depth = 1
  /\ ~passthrough
  /\ [i \in 1..Len(out) |-> out[i].text]
       = <<HeaderLine(0, <<"A">>),
           <<vl, br, " ">>, <<"a", "\n">>, <<vl, vl, " ">>, <<"b", "\n">>>>

(* ---------------------- the end-to-end scenario ----------------------- *)
Hello == <<"h", "e", "l", "l", "o">>
World == <<"w", "o", "r", "l", "d">>

\* with asection('A'): aprint('hello'); with asection('B'): aprint('world')
NextScenario ==
  \/ nops = 0 /\ SectionEnter(1, <<"A">>, None)
  \/ nops = 1 /\ Aprint(1, <<Hello>>, <<" ">>, <<"\n">>, None, FALSE)
  \/ nops = 2 /\ SectionEnter(1, <<"B">>, None)
  \/ nops = 3 /\ Aprint(1, <<World>>, <<" ">>, <<"\n">>, None, FALSE)
  \/ nops = 4 /\ SectionExitBegin(1)
  \/ \E elapsed \in Elapseds : SectionExitRender(1, elapsed)
  \/ SectionExitEnd(1)

SpecScenario == Init /\ [][NextScenario]_vars

\* both sections have exited, under a configuration that shows two levels
ScenarioDone ==
  /\ nops = 4
  /\ pc[1] = "run"
  /\ stack[1] = <<>>
  /\ LE(2, max_depth)
  /\ enable_output
  /\ ~passthrough

\* the number of vertical glyphs a line starts with
RECURSIVE VlCount(_)
VlCount(line) ==
  IF line # <<>> /\ line[1] = vl THEN 1 + VlCount(Tail(line)) ELSE 0

\* C12 as stated: the scenario prints 6 non-empty lines, the header of A
\* after 0 vertical glyphs, 'hello' after 1, the header of B after 1 and
\* 'world' after 2, the elapsed-time footers being on.
C12_SixLines ==
  (ScenarioDone /\ elapsed_time)
    => LET lines == OutLines(out)
       IN /\ Len(lines) = 6
          /\ \A i \in 1..6 : lines[i] # <<>>
          /\ [i \in 1..4 |-> VlCount(lines[i])] = <<0, 1, 1, 2>>

\* C12: the scenario prints 8 non-empty lines when the elapsed-time footers
\* are on: the header of A after 0 vertical glyphs, 'hello' after 1, the
\* header of B after 1, 'world' after 2, the footer and the closing line of
\* B with 2 each and those of A with 1 each (the depth after the decrement,
\* plus 1); with the footers off it prints the other 6.
C12_ScenarioLines ==
  ScenarioDone
    => OutLines(out)
         = <<<<bd, " ", "A">>, <<vl, br, " ">> \o Hello,
             <<vl, bd, " ", "B">>, <<vl, vl, br, " ">> \o World>>
           \o (IF elapsed_time
                THEN <<<<vl, vl, tb, la, " ", "500", " microseconds">>>> ELSE <<>>)
           \o <<<<vl, vl>>>>
           \o (IF elapsed_time
                THEN <<<<vl, tb, la, " ", "500", " microseconds">>>> ELSE <<>>)
           \o <<<<vl>>>>

\* the scenario has run to its end with the footers on: 8 lines are out
W_C12 ==
  /\ ScenarioDone
  /\ elapsed_time
  /\ depth = 0
  /\ Len(OutLines(out)) = 8
  /\ [i \in 1..8 |-> VlCount(OutLines(out)[i])] = <<0, 1, 1, 2, 2, 2, 1, 1>>

(* --------------------------- set_log_max_depth ------------------------ *)
\* C13: set_log_max_depth(n) stores n - 1 for n >= 1 and 0 for every
\* n < 1, negative ones included, and returns without a failure.
C13_MaxDepthStored ==
  [][\A t \in active, n \in MaxDepthArgs :
       set_log_max_depth(t, n)
         => /\ max_depth' = Fin(IF n < 1 THEN 0 ELSE n - 1)
            /\ pc'[t] = "run"
            /\ exc'[t] = None
            /\ raised'[t] = raised[t]]_vars

\* a section was entered with max_depth unbounded, and a call of
\* set_log_max_depth has since stored 0
W_C13 ==
  /\ nsets = 1
  /\ max_depth = Fin(0)
  /\ Len(stack[1]) = 1
  /\ Top(1).md0 = Inf
  /\ ~Top(1).fixed
  /\ pc[1] = "run"

\* C14: after set_log_max_depth(n) with n >= 1 and output enabled, a
\* section at level L (entered at depth L - 1) prints an entry line, and
\* at its exit a closing line, exactly when L <= n; after
\* set_log_max_depth(n) with any n, an aprint of a non-empty line at depth 0
\* in normal mode prints it.
C14_LevelsShown ==
  [][\A t \in active, n \in MaxDepthArgs :
       (set_log_max_depth(t, n) /\ enable_output)
         => /\ n >= 1
                 => \A header \in Headers, elapsed \in Elapseds :
                      /\ (asection_entry(header, None))' # <<>> <=> depth + 1 <= n
                      /\ (\E i \in 1..Len((asection_exit(elapsed, None))') :
                             (asection_exit(elapsed, None))'[i].text = CloserLine(depth))
                           <=> depth + 1 <= n
            /\ (depth = 0 /\ ~passthrough)
                 => (aprint(FALSE, << <<"x">> >>, <<" ">>, <<"\n">>, None, FALSE))'
                      = <<[file |-> None, text |-> <<br, " ">>],
                          [file |-> None, text |-> <<"x", "\n">>]>>]_vars

\* set_log_max_depth(2) was called inside a section entered with max_depth
\* unbounded; of the two sections entered since, the one at level 2 printed
\* the truncation marker and the one at level 3 nothing
W_C14 ==
  /\ nsets = 1
  /\ max_depth = Fin(1)
  /\ enable_output
  /\ Len(stack[1]) = 3
  /\ stack[1][1].md0 = Inf
  /\ stack[1][2].md0 = Fin(1)
  /\ stack[1][2].entry = <<[file |-> None, text |-> MarkerLine(1, <<"A">>)]>>
  /\ stack[1][3].entry = <<>>

(* ------------------------- decorated functions ------------------------ *)
\* functions decorated with section() call each other, print, return and raise
NextSection ==
  \/ \E t \in active, header \in Headers, file \in Files, args \in CallArgs :
       Call(t, header, file, args)
  \/ \E t \in active, v \in Results : Return(t, v)
  \/ \E t \in active, args \in ArgSets, sep \in Seps, end \in Ends, file \in Files :
       Aprint(t, args, sep, end, file, FALSE)
  \/ \E t \in active, e \in Excs : Raise(t, e)
  \/ \E t \in active : SectionExitBegin(t)
  \/ \E t \in active, elapsed \in Elapseds : SectionExitRender(t, elapsed)
  \/ \E t \in active : SectionExitEnd(t)
  \/ \E t \in active : Catch(t)

SpecSection == Init /\ [][NextSection]_vars

\* C15: a call of a function decorated with section(header) enters a
\* section as asection(header) does (same entry line, depth one higher) and
\* hands the function its arguments; the value the function returns is the
\* value the caller receives; a failure of the function reaches the caller
\* as that failure; when the call returns or raises the depth is the one
\* before the call; and with calls nested in calls the depth during each is
\* one more than during its caller.
C15_DecoratedCall ==
  [][\A t \in active :
       /\ \A header \in Headers, file \in Files, args \in CallArgs :
            Call(t, header, file, args)
              => /\ depth' = depth + 1
                 /\ (Top(t))'.func_args = args
                 /\ out' = out \o ToReal(asection_entry(header, file), sys_stdout)
       /\ \A v \in Results :
            Return(t, v) => (Top(t))'.result = v /\ depth' = depth - 1
       /\ (SectionExitEnd(t) /\ IsCall(Top(t)))
            => /\ depth' = Top(t).d0
               /\ IF Top(t).exception = None
                  THEN pc'[t] = "run" /\ ret'[t] = Top(t).result
                  ELSE pc'[t] = "exc" /\ exc'[t] = raised[t] /\ ret'[t] = ret[t]
       /\ \A i \in 1..Len(stack'[t]) : stack'[t][i].d0 = i - 1
       /\ depth' = Len(stack'[t]) - (IF pc'[t] \in ExitPcs THEN 1 ELSE 0)]_vars

\* a decorated function called a decorated function, got "5" back from it
\* and then raised; the failure has reached its caller at depth 0
W_C15 ==
  /\ nops = 4
  /\ ret[1] = "5"
  /\ pc[1] = "exc"
  /\ exc[1] = "ValueError"
  /\ stack[1] = <<>>
  /\ depth = 0

(* ------------------------------ acapture ------------------------------ *)
\* C16: at every exit of acapture in normal mode, by return or by a failure
\* of its body, the thread's captured flag becomes false, sys.stdout and
\* sys.stderr are no longer capture buffers, the buffered stdout text and
\* then the buffered stderr text are written to the real streams through
\* aprint with separate_lines (tree-formatted), and a failure of the body is
\* the failure that propagates, a returning body leaving no failure.
C16_CaptureCleanup ==
  [][\A t \in active :
       (CaptureExit(t) /\ ~passthrough)
         => /\ captured'[t] = "False"
            /\ ~sys_stdout'.buf
            /\ ~sys_stderr'.buf
            /\ out' = out
                 \o ToReal(aprint(FALSE, <<Flat(sys_stdout.data)>>, <<" ">>, <<"\n">>,
                                  None, TRUE), RealStream)
                 \o ToReal(aprint(FALSE, <<Flat(sys_stderr.data)>>, <<" ">>, <<"\n">>,
                                  Stderr, TRUE), RealStream)
            /\ pc'[t] = pc[t]
            /\ exc'[t] = exc[t]]_vars

(* ------------------------------ threads ------------------------------- *)
\* two threads start from the default configuration (arbol.py 68-74, 98)
InitThreads ==
  /\ depth = 0
  /\ max_depth = Inf
  /\ elapsed_time = TRUE
  /\ enable_output = TRUE
  /\ passthrough = FALSE
  /\ captured = [t \in Threads |-> "unset"]
  /\ sys_stdout = RealStream
  /\ sys_stderr = RealStream
  /\ out = <<>>
  /\ stack = [t \in Threads |-> <<>>]
  /\ pc = [t \in Threads |-> "run"]
  /\ exc = [t \in Threads |-> None]
  /\ raised = [t \in Threads |-> None]
  /\ caught = [t \in Threads |-> None]
  /\ active = Threads
  /\ nsets = 0
  /\ nops = 0
  /\ ret = [t \in Threads |-> None]

\* each thread prints, enters sections, and opens and closes capture regions
NextThreads ==
  \/ \E t \in active, args \in ArgSets, sep \in Seps, end \in Ends, file \in Files,
        separate_lines \in BOOLEAN :
       Aprint(t, args, sep, end, file, separate_lines)
  \/ \E t \in active, header \in Headers, file \in Files : SectionEnter(t, header, file)
  \/ \E t \in active : CaptureEnter(t)
  \/ \E t \in active : CaptureExit(t)
  \/ \E t \in active : Catch(t)

SpecThreads == InitThreads /\ [][NextThreads]_vars

\* C17: while a thread is inside acapture, an aprint of a sibling thread
\* whose own captured flag is not set (passthrough off) is tree-formatted:
\* what it writes, to the real stream or to the buffer sys.stdout then is,
\* is not the raw joined text but, when the depth is visible, a glyph prefix
\* and the line for each non-empty physical line.
C17_CapturedPerThread ==
  [][\A t \in active, args \in ArgSets, sep \in Seps, end \in Ends, file \in Files,
        sl \in BOOLEAN :
       (/\ Aprint(t, args, sep, end, file, sl)
        /\ ~passthrough
        /\ captured[t] # "True"
        /\ \E u \in active \ {t} : captured[u] = "True")
         => LET new == IF sys_stdout.buf
                       THEN SubSeq(sys_stdout'.data, Len(sys_stdout.data) + 1,
                                   Len(sys_stdout'.data))
                       ELSE [i \in 1..(Len(out') - Len(out)) |-> out'[Len(out) + i].text]
                lines == Split(Join(args, sep))
            IN /\ new # <<Join(args, sep) \o end>>
               /\ (enable_output /\ LE(depth, max_depth))
                    => /\ Len(new) = 2 * NonEmpty(lines)
                       /\ \A i \in 1..Len(new) : i % 2 = 1 => HasGlyph(new[i])]_vars

\* thread 1 is inside acapture and thread 2, never captured, has called
\* aprint('x', 'y\n\nz'): the buffer holds its two tree-formatted lines
W_C17 ==
  /\ captured = <<"True", "unset">>
  /\ Len(stack[1]) = 1
  /\ Top(1).kind = "capture"
  /\ sys_stdout.buf
  /\ sys_stdout.data = <<<<br, " ">>, <<"x", " ", "y", "\n">>, <<vl, " ">>, <<"z", "\n">>>>

(* ---------------------- the unit of the footer ------------------------ *)
\* sections are entered and exit after each of the sampled elapsed times
NextElapsed ==
  \/ \E t \in active, header \in Headers, file \in Files :
       nops < MaxTimed /\ SectionEnter(t, header, file)
  \/ \E t \in active : SectionExitBegin(t)
  \/ \E t \in active, elapsed \in ElapsedSamples : SectionExitRender(t, elapsed)
  \/ \E t \in active : SectionExitEnd(t)

SpecElapsed == Init /\ [][NextElapsed]_vars

Units ==
  {" microseconds", " milliseconds", " seconds", " minutes", " hours", " days"}
\* the unit of the first bucket an elapsed time falls in
BucketUnit(e) ==
  IF e < Sec \div 1000 THEN " microseconds"
  ELSE IF e < Sec THEN " milliseconds"
  ELSE IF e < 60 * Sec THEN " seconds"
  ELSE IF e < 3600 * Sec THEN " minutes"
  ELSE IF e < 86400 * Sec THEN " hours"
  ELSE " days"

\* C18: the footer a section prints at its exit names exactly one unit,
\* that of the first bucket the elapsed time falls in: microseconds below
\* 0.001 s (negative times included), milliseconds below 1 s, seconds below
\* 60 s, minutes below 3600 s, hours below 86400 s, days from there on; 0.001,
\* 1, 60, 3600 and 86400 s themselves fall in the larger unit.
C18_ElapsedUnit ==
  [][\A t \in active, e \in ElapsedSamples :
       (SectionExitRender(t, e) /\ enable_output /\ elapsed_time /\ LE(depth, max_depth))
         => LET footer == out'[Len(out) + 1].text
            IN /\ Len(out') = Len(out) + 2
               /\ Cardinality({i \in 1..Len(footer) : footer[i] \in Units}) = 1
               /\ footer[Len(footer) - 1] = BucketUnit(e)]_vars

\* a section has exited after exactly 0.001 s: its footer says milliseconds
W_C18 ==
  /\ pc[1] = "run"
  /\ stack[1] = <<>>
  /\ nops = 1
  /\ Len(out) = 3
  /\ out[2].text = <<vl, tb, la, " ", "10", "/10", " milliseconds", "\n">>
  /\ out[3].text = CloserLine(0)

(* ------------------------- the legacy aliases ------------------------- *)
\* a caller that uses lprint and lsection only
NextLegacy ==
  \/ \E t \in active, args \in ArgSets, sep \in Seps, end \in Ends, file \in Files :
       Lprint(t, args, sep, end, file)
  \/ \E t \in active, header \in Headers, file \in Files :
       LsectionEnter(t, header, file)
  \/ \E t \in active, e \in Excs : Raise(t, e)
  \/ \E t \in active : SectionExitBegin(t)
  \/ \E t \in active, elapsed \in Elapseds : SectionExitRender(t, elapsed)
  \/ \E t \in active : SectionExitEnd(t)
  \/ \E t \in active : Catch(t)

SpecLegacy == Init /\ [][NextLegacy]_vars

C20_ExitSymmetric ==
  [][\A t \in active, elapsed \in Elapseds :
       (SectionExitRender(t, elapsed) /\ enable_output)
         => ((Top(t))'.exit # <<>> <=> LE(depth + 1, max_depth))]_vars

\* C20: with output enabled, a section that exits prints its closing line
\* (after its footer, when elapsed_time is on), the depth being already
\* decremented, exactly when depth <= max_depth: one level further than the
\* entry test depth + 1 <= max_depth for the header, so that the section
\* that showed the truncation marker is closed too.
C20_ExitCondition ==
  [][\A t \in active, elapsed \in Elapseds :
       (SectionExitRender(t, elapsed) /\ enable_output)
         => LET ws == (Top(t))'.exit
            IN /\ ws # <<>> <=> LE(depth, max_depth)
               /\ ws # <<>>
                    => /\ Len(ws) = IF elapsed_time THEN 2 ELSE 1
                       /\ ws[Len(ws)].text = CloserLine(depth)
                       /\ depth = Top(t).d0]_vars

\* max_depth is 0 and elapsed_time off: the section entered at depth 0
\* showed the truncation marker and has printed its closing line alone,
\* with depth + 1 = 1 above max_depth
W_C20 ==
  /\ pc[1] = "exit_raise"
  /\ max_depth = Fin(0)
  /\ ~elapsed_time
  /\ depth = 0
  /\ Len(stack[1]) = 1
  /\ Top(1).entry = <<[file |-> None, text |-> MarkerLine(0, <<"A">>)]>>
  /\ Top(1).exit = <<[file |-> None, text |-> CloserLine(0)]>>

(* ------------------------ the lines of aprint ------------------------- *)
\* the indices of the non-empty physical lines, in order
NonEmptyIndices(lines) ==
  SelectSeq([i \in 1..Len(lines) |-> i], LAMBDA i : lines[i] # <<>>)

\* C21: in normal mode (passthrough off, thread not captured), with
\* depth <= max_depth and output enabled, aprint adds one output line for
\* each non-empty physical line of the joined text, in their order: `depth`
\* vertical glyphs, then the branch glyph when the line is physical line 0
\* of the text or separate_lines is set and the vertical glyph otherwise,
\* then one space and the line.
C21_AprintLines ==
  [][\A t \in active, args \in PrintArgs, sep \in PrintSeps, end \in Ends,
        file \in Files, sl \in BOOLEAN :
       (/\ Aprint(t, args, sep, end, file, sl)
        /\ ~passthrough
        /\ ~IsCaptured(t)
        /\ enable_output
        /\ LE(depth, max_depth))
         => LET lines == Split(Join(args, sep))
                idx == NonEmptyIndices(lines)
            IN OutLines(SubSeq(out', Len(out) + 1, Len(out')))
                 = [k \in 1..Len(idx) |->
                      Rep(vl, depth) \o <<IF idx[k] = 1 \/ sl THEN br ELSE vl>>
                        \o <<" ">> \o lines[idx[k]]]]_vars

\* at depth 1 aprint('\na') wrote its one line after two vertical glyphs:
\* the line is physical line 1 and gets no branch glyph
W_C21 ==
  /\ nops = 2
  /\ depth = 1
  /\ ~passthrough
  /\ [i \in 1..Len(out) |-> out[i].text]
       = <<HeaderLine(0, <<"A">>), <<vl, vl, " ">>, <<"a", "\n">>>>

(* ------------------ the footer and the closing line ------------------- *)
\* some token of the text is a unit of time
IsTiming(text) == \E i \in 1..Len(text) : text[i] \in Units

\* C22: with output enabled, a section that exits with the decremented
\* depth within max_depth prints its closing line of depth + 1 vertical
\* glyphs as its last line; when elapsed_time is on at that moment the
\* elapsed-time footer is the one line before it, and when it is off the
\* closing line is all the exit prints; no exit adds a timing line while
\* elapsed_time is off.
C22_CloserAndFooter ==
  [][\A t \in active, elapsed \in Elapseds :
       SectionExitRender(t, elapsed)
         => LET ws == (Top(t))'.exit
                f == Top(t).file
            IN /\ (enable_output /\ LE(depth, max_depth))
                    => IF elapsed_time
                       THEN /\ Len(ws) = 2
                            /\ ws[1].file = f
                            /\ IsFooterLine(ws[1].text, depth)
                            /\ IsTiming(ws[1].text)
                            /\ ws[2] = [file |-> f, text |-> CloserLine(depth)]
                       ELSE ws = <<[file |-> f, text |-> CloserLine(depth)]>>
               /\ ~elapsed_time => \A i \in 1..Len(ws) : ~IsTiming(ws[i].text)
               /\ out' = out \o ToReal(ws, sys_stdout)]_vars

\* with elapsed_time on and max_depth unbounded, the one open section has
\* printed its footer and then its closing line
W_C22 ==
  /\ pc[1] = "exit_raise"
  /\ elapsed_time
  /\ max_depth = Inf
  /\ Len(stack[1]) = 1
  /\ Top(1).exit
       = <<[file |-> None, text |-> <<vl, tb, la, " ", "500", " microseconds", "\n">>],
           [file |-> None, text |-> CloserLine(0)]>>
  /\ Len(out) = 3
  /\ out[3].text = CloserLine(0)

(* ------------------------- the captured flag -------------------------- *)
\* some acapture scope of thread t is open
InCapture(t) == \E i \in 1..Len(stack[t]) : stack[t][i].kind = "capture"

\* C23: a thread's captured flag is true exactly while at least one
\* acapture scope of that thread is open, nested scopes included.
C23_CapturedWhileOpen ==
  \A t \in active : (captured[t] = "True") <=> InCapture(t)

(* ------------------------ the captured output ------------------------- *)
\* C24: while an acapture scope of a thread is open, an aprint of that
\* thread to standard output adds nothing to the real output; and when a
\* scope closes in normal mode, with output enabled and the depth within
\* max_depth, the real output gains one line for each non-empty captured
\* line, in order: `depth` vertical glyphs, the branch glyph, one space and
\* the captured line.
C24_CapturedThenFlushed ==
  [][\A t \in active :
       /\ \A args \in ArgSets, sep \in Seps, end \in Ends, sl \in BOOLEAN :
            (Aprint(t, args, sep, end, None, sl) /\ InCapture(t)) => out' = out
       /\ (CaptureExit(t) /\ ~passthrough /\ enable_output /\ LE(depth, max_depth))
            => LET lines == Split(Flat(sys_stdout.data))
                   idx == NonEmptyIndices(lines)
               IN OutLines(SubSeq(out', Len(out) + 1, Len(out')))
                    = [k \in 1..Len(idx) |->
                         Rep(vl, depth) \o <<br, " ">> \o lines[idx[k]]]]_vars

(* ------------------- the depth counter under threads ------------------ *)
\* lines 215-230: asection prints its entry line and reads Arbol._depth for
\* `Arbol._depth += 1`; the attribute is read and written back in two steps
\* with no lock, and another thread may run between them
SectionEnterLoad(t, header, file) ==
  /\ pc[t] = "run"
  /\ nops < MaxRace
  /\ Op
  /\ LET ws == asection_entry(header, file)
     IN /\ Emit(ws)
        /\ stack' = [stack EXCEPT ![t] =
                       Append(@, SectionFrame(header, file, ws) @@ [loaded |-> depth])]
  /\ pc' = [pc EXCEPT ![t] = "enter_store"]
  /\ UNCHANGED <<depth, config, captured, failure, active, nsets, ret>>

\* line 230: the store of `Arbol._depth += 1`
SectionEnterStore(t) ==
  /\ pc[t] = "enter_store"
  /\ depth' = Top(t).loaded + 1
  /\ pc' = [pc EXCEPT ![t] = "run"]
  /\ UNCHANGED <<nops, config, captured, streams, stack, failure, active, nsets, ret>>

\* lines 236-241: the body has returned; the read of `Arbol._depth -= 1`
SectionExitLoad(t) ==
  /\ pc[t] = "run"
  /\ stack[t] # <<>>
  /\ Top(t).kind = "section"
  /\ stack' = [stack EXCEPT ![t][Len(stack[t])].loaded = depth]
  /\ pc' = [pc EXCEPT ![t] = "exit_store"]
  /\ UNCHANGED <<nops, depth, config, captured, streams, failure, active, nsets, ret>>

\* line 241: the store of `Arbol._depth -= 1`
SectionExitStore(t) ==
  /\ pc[t] = "exit_store"
  /\ depth' = Top(t).loaded - 1
  /\ pc' = [pc EXCEPT ![t] = "exit_render"]
  /\ UNCHANGED <<nops, config, captured, streams, stack, failure, active, nsets, ret>>

\* two threads run balanced asection blocks on the shared counter
NextRace ==
  \/ \E t \in active, header \in Headers, file \in Files : SectionEnterLoad(t, header, file)
  \/ \E t \in active : SectionEnterStore(t)
  \/ \E t \in active : SectionExitLoad(t)
  \/ \E t \in active : SectionExitStore(t)
  \/ \E t \in active, elapsed \in Elapseds : SectionExitRender(t, elapsed)
  \/ \E t \in active : SectionExitEnd(t)

SpecRace == InitThreads /\ [][NextRace]_vars

\* C25: whenever no thread has a section open (every thread is between
\* operations with an empty stack), the depth counter is 0.
C25_NoLostUpdate ==
  (\A t \in active : stack[t] = <<>> /\ pc[t] = "run") => depth = 0

(* --------------------- one counter for all threads -------------------- *)
\* two threads start with an unbounded or a finite max_depth and the other
\* defaults (arbol.py 68-74, 98)
InitShared ==
  /\ depth = 0
  /\ max_depth \in {Inf, Fin(MaxDepth)}
  /\ elapsed_time = TRUE
  /\ enable_output = TRUE
  /\ passthrough = FALSE
  /\ captured = [t \in Threads |-> "unset"]
  /\ sys_stdout = RealStream
  /\ sys_stderr = RealStream
  /\ out = <<>>
  /\ stack = [t \in Threads |-> <<>>]
  /\ pc = [t \in Threads |-> "run"]
  /\ exc = [t \in Threads |-> None]
  /\ raised = [t \in Threads |-> None]
  /\ caught = [t \in Threads |-> None]
  /\ active = Threads
  /\ nsets = 0
  /\ nops = 0
  /\ ret = [t \in Threads |-> None]

\* each thread prints and enters and exits sections, one call at a time
NextShared ==
  \/ \E t \in active, args \in ArgSets, sep \in Seps, end \in Ends, file \in Files :
       Aprint(t, args, sep, end, file, FALSE)
  \/ \E t \in active, header \in Headers, file \in Files : SectionEnter(t, header, file)
  \/ \E t \in active : SectionExitBegin(t)
  \/ \E t \in active, elapsed \in Elapseds : SectionExitRender(t, elapsed)
  \/ \E t \in active : SectionExitEnd(t)

SpecShared == InitShared /\ [][NextShared]_vars

\* the sections open in all threads together
OpenAll == NumOpen(1) + NumOpen(2)
\* the lines the last step added to the real output
NewLines == OutLines(SubSeq(out', Len(out) + 1, Len(out')))

\* C26: the lines of a thread are rendered at the number of sections open
\* in all threads together, its siblings' included: an aprint prints nothing
\* when that number exceeds max_depth and else puts that many vertical
\* glyphs before each non-empty line; an asection entry prints its header
\* after that many vertical glyphs when one more is within max_depth, the
\* truncation marker when that number equals max_depth, and else nothing.
C26_SharedDepth ==
  [][\A t \in active :
       /\ \A args \in ArgSets, sep \in Seps, end \in Ends, file \in Files, sl \in BOOLEAN :
            Aprint(t, args, sep, end, file, sl)
              => LET lines == Split(Join(args, sep))
                     idx == NonEmptyIndices(lines)
                 IN NewLines
                      = IF LE(OpenAll, max_depth)
                        THEN [k \in 1..Len(idx) |->
                                Rep(vl, OpenAll)
                                  \o <<IF idx[k] = 1 \/ sl THEN br ELSE vl, " ">>
                                  \o lines[idx[k]]]
                        ELSE <<>>
       /\ \A header \in Headers, file \in Files :
            SectionEnter(t, header, file)
              => NewLines
                   = IF LE(OpenAll + 1, max_depth)
                     THEN <<Rep(vl, OpenAll) \o <<bd, " ">> \o header>>
                     ELSE IF OpenAll = max_depth.n
                     THEN <<Rep(vl, OpenAll) \o <<br, "=", " ">> \o header
                              \o <<" (log tree truncated here)">>>>
                     ELSE <<>>]_vars

\* max_depth is 1; thread 1 has entered section A; thread 2, with no section
\* of its own open, has printed 'x y' after one vertical glyph and has then
\* entered a section, which printed the truncation marker
W_C26 ==
  /\ max_depth = Fin(1)
  /\ Len(stack[1]) = 1
  /\ Len(stack[2]) = 1
  /\ Top(2).entry # <<>>
  /\ Len(out) = 6
  /\ out[1].text = HeaderLine(0, <<"A">>)
  /\ out[2].text = <<vl, br, " ">>
  /\ out[3].text = <<"x", " ", "y", "\n">>
  /\ out[6].text = MarkerLine(1, <<"A">>)

(* ------------------ configuration changed in a section ---------------- *)
\* C27: when max_depth, elapsed_time or enable_output differs at a section's
\* exit from its value at the section's entry, the exit renders by the
\* values at exit: nothing when output is disabled or the decremented depth
\* exceeds max_depth, and else the footer, if elapsed_time is on, followed
\* by the closing line.
C27_ExitReadsCurrent ==
  [][\A t \in active, elapsed \in Elapseds :
       (/\ SectionExitRender(t, elapsed)
        /\ \/ Top(t).md0 # max_depth
           \/ Top(t).et0 # elapsed_time
           \/ Top(t).eo0 # enable_output)
         => OutLines((Top(t))'.exit)
              = IF enable_output /\ LE(depth, max_depth)
                THEN (IF elapsed_time
                      THEN <<Rep(vl, depth + 1) \o <<tb, la>> \o ElapsedText(elapsed)>>
                      ELSE <<>>)
                     \o <<Rep(vl, depth + 1)>>
                ELSE <<>>]_vars

\* a section entered with the footers on, whose header was printed, has
\* rendered its exit after set_log_elapsed_time(False): the closing line only
W_C27 ==
  \E t \in active :
    /\ pc[t] = "exit_raise"
    /\ Top(t).et0
    /\ ~elapsed_time
    /\ Top(t).entry # <<>>
    /\ Len(Top(t).exit) = 1
    /\ Top(t).exit[1].text = CloserLine(depth)

(* ----------------------- entry and closing lines ---------------------- *)
\* C28: a section that has rendered its exit, its body having returned or
\* raised, with max_depth unchanged since its entry and enable_output as at
\* its entry, has printed a closing line (as its last exit line, of one more
\* vertical glyph than its entry depth) if and only if it printed an entry
\* line, the header or the truncation marker.
C28_ClosedIffOpened ==
  \A t \in active :
    (/\ pc[t] = "exit_raise"
     /\ Top(t).fixed
     /\ Top(t).eo0 = enable_output)
      => LET f == Top(t)
             closed == /\ f.exit # <<>>
                       /\ f.exit[Len(f.exit)] = [file |-> f.file, text |-> CloserLine(f.d0)]
             opened == \/ f.entry = <<[file |-> f.file, text |-> HeaderLine(f.d0, f.header)]>>
                       \/ f.entry = <<[file |-> f.file, text |-> MarkerLine(f.d0, f.header)]>>
         IN /\ closed <=> opened
            /\ ~closed => f.exit = <<>>
            /\ ~opened => f.entry = <<>>

\* max_depth is 1: the body of the second of two nested sections, which
\* showed the truncation marker, has raised, and the section has printed its
\* closing line before it re-raises
W_C28 ==
  /\ pc[1] = "exit_raise"
  /\ Len(stack[1]) = 2
  /\ max_depth = Fin(1)
  /\ Top(1).fixed
  /\ Top(1).exception # None
  /\ Top(1).entry = <<[file |-> None, text |-> MarkerLine(1, <<"A">>)]>>
  /\ Top(1).exit # <<>>
  /\ Top(1).exit[Len(Top(1).exit)].text = CloserLine(1)

(* --------------------------- frame effects ---------------------------- *)
\* C29: a step that pushes a section frame (an asection entry) adds exactly
\* 1 to depth and a step that takes a thread to the rendering of its exit
\* (an asection exit) subtracts exactly 1, whatever the configuration and
\* the captured flag; every other step (aprint, acapture entry and exit,
\* the configuration setters, raise and except) leaves depth unchanged; and
\* every step that is not a configuration assignment (aprint, asection and
\* acapture among them) leaves max_depth, elapsed_time, enable_output and
\* passthrough unchanged.
C29_FrameEffects ==
  [][LET enters(t) == /\ Len(stack'[t]) = Len(stack[t]) + 1
                      /\ (Top(t))'.kind = "section"
         exits(t) == pc[t] # "exit_render" /\ pc'[t] = "exit_render"
     IN /\ \A t \in active : enters(t) => depth' = depth + 1
        /\ \A t \in active : exits(t) => depth' = depth - 1
        /\ (\A t \in active : ~enters(t) /\ ~exits(t)) => depth' = depth
        /\ nsets' = nsets => config' = config]_vars

\* output is disabled and two sections are open, neither of which printed
\* anything at entry: the depth is 2
W_C29 ==
  /\ ~enable_output
  /\ pc[1] = "run"
  /\ Len(stack[1]) = 2
  /\ \A i \in 1..2 : IsSection(1, i) /\ stack[1][i].entry = <<>> /\ ~stack[1][i].eo0
  /\ depth = 2

(* --------------------------- failing writes --------------------------- *)
\* mutant: the entry line is printed after the depth has been incremented
SectionEnterWriteFails_AfterIncrement(t, header, file) ==
  /\ pc[t] = "run"
  /\ Op
  /\ asection_entry(header, file) # <<>>
  /\ depth' = depth + 1
  /\ pc' = [pc EXCEPT ![t] = "exc"]
  /\ exc' = [exc EXCEPT ![t] = WriteError]
  /\ raised' = [raised EXCEPT ![t] = WriteError]
  /\ caught' = [caught EXCEPT ![t] = None]
  /\ UNCHANGED <<config, captured, streams, stack, active, nsets, ret>>

\* lines 215-228: the print of the header or of the truncation marker
\* raises; Arbol._depth += 1 (line 230) and the yield are not reached, and
\* the failure leaves asection
SectionEnterWriteFails(t, header, file) ==
  /\ pc[t] = "run"
  /\ Op
  /\ asection_entry(header, file) # <<>>
  /\ pc' = [pc EXCEPT ![t] = "exc"]
  /\ exc' = [exc EXCEPT ![t] = WriteError]
  /\ raised' = [raised EXCEPT ![t] = WriteError]
  /\ caught' = [caught EXCEPT ![t] = None]
  /\ UNCHANGED <<depth, config, captured, streams, stack, active, nsets, ret>>

\* lines 242-247: the first k prints of the exit succeed and the next one
\* raises; the failure leaves asection in place of the one its body raised
SectionExitWriteFails(t, elapsed, k) ==
  /\ pc[t] = "exit_render"
  /\ LET ws == asection_exit(elapsed, Top(t).file)
     IN /\ k < Len(ws)
        /\ Emit(SubSeq(ws, 1, k))
  /\ stack' = [stack EXCEPT ![t] = SubSeq(@, 1, Len(@) - 1)]
  /\ pc' = [pc EXCEPT ![t] = "exc"]
  /\ exc' = [exc EXCEPT ![t] = WriteError]
  /\ raised' = [raised EXCEPT ![t] = WriteError]
  /\ caught' = [caught EXCEPT ![t] = None]
  /\ UNCHANGED <<nops, depth, config, captured, active, nsets, ret>>

\* sections whose destination may refuse a write
NextWrite ==
  \/ \E t \in active, header \in Headers, file \in Files : SectionEnter(t, header, file)
  \/ \E t \in active, header \in Headers, file \in Files :
       SectionEnterWriteFails(t, header, file)
  \/ \E t \in active : SectionExitBegin(t)
  \/ \E t \in active, elapsed \in Elapseds : SectionExitRender(t, elapsed)
  \/ \E t \in active, elapsed \in Elapseds, k \in 0..1 :
       SectionExitWriteFails(t, elapsed, k)
  \/ \E t \in active : SectionExitEnd(t)
  \/ \E t \in active, e \in Excs : Raise(t, e)
  \/ \E t \in active : Catch(t)

SpecWrite == Init /\ [][NextWrite]_vars

\* C30: when a write failure starts to propagate from an asection, depth is
\* then the number of sections still open; if it leaves the exit of a
\* section (whose footer or closing line could not be written, or which
\* re-raises the write failure of its body), that section is closed and
\* depth is the depth at which it was entered; if it came from an entry, no
\* section was opened (its body does not run) and depth is unchanged.
C30_WriteFailureKeepsDepth ==
  [][\A t \in active :
       (exc'[t] = WriteError /\ exc[t] # WriteError)
         => /\ depth' = (NumOpen(t))'
            /\ IF pc[t] \in ExitPcs
               THEN /\ depth' = Top(t).d0
                    /\ stack'[t] = SubSeq(stack[t], 1, Len(stack[t]) - 1)
               ELSE /\ depth' = depth
                    /\ stack'[t] = stack[t]]_vars

\* section A is open and has printed its header; the entry write of a
\* section nested in it has failed: the failure propagates in the body of A
\* at depth 1
W_C30 ==
  /\ pc[1] = "exc"
  /\ exc[1] = WriteError
  /\ Len(stack[1]) = 1
  /\ Top(1).entry # <<>>
  /\ Top(1).exception = None
  /\ depth = 1
  /\ Len(out) = 1

====
